---- MODULE Spec2Model ----
(***************************************************************************)
(* Model of the historical-weather aggregation layer of emsawd:            *)
(*   core/models.py      WeatherRecord and its construction-time check     *)
(*   core/services.py    WeatherService.fetch_weather_for_range            *)
(*   repositories/mock_weather_repository.py   MockWeatherRepository       *)
(*   ui/main_window.py   WeatherDataWorker.run (the caller of the service) *)
(*   repositories/weather_repository.py     the range-query provider      *)
(*   repositories/openweather_repository.py, pirate_weather_repository.py, *)
(*   accuweather_repository.py              the per-day providers          *)
(*   repositories/geocoding_repository.py   GeocodingRepository            *)
(*   core/export_service.py                 ExportService                  *)
(*   ui/main_window.py   the date controls, the fetch button and the slots *)
(*                       of the worker's signals                           *)
(*                                                                         *)
(* Dates are proleptic Gregorian ordinals, as datetime.date keeps them     *)
(* (0001-01-01 is ordinal 1).  Temperatures and precipitation are integers *)
(* standing for the float values of the code.                              *)
(***************************************************************************)
EXTENDS Integers, Sequences, FiniteSets, TLC

\* ------------------------------------------------------------------ bounds

\* Largest years_past a call is made with.
MaxYearsBack == 2
\* Largest value of end_date - start_date (in days) a call is made with.
MaxWindowSpan == 2
\* Temperatures range over -MaxTemp..MaxTemp in the record-construction runs.
MaxTemp == 3

\* --------------------------------------------------------- datetime.date

\* date.min.toordinal() and date.max.toordinal(): the range outside which
\* date - timedelta raises OverflowError.
MinOrdinal == 1
MaxOrdinal == 3652059

\* timedelta(days=365 * year_offset): the length of one "year" of the shift.
DaysPerYearOffset == 365

IsLeap(y) == (y % 4 = 0) /\ ((y % 100 # 0) \/ (y % 400 = 0))

DaysBeforeYear(y) ==
    LET p == y - 1 IN p * 365 + (p \div 4) - (p \div 100) + (p \div 400)

DaysInMonth(y, m) ==
    IF m = 2 THEN (IF IsLeap(y) THEN 29 ELSE 28)
    ELSE IF m \in {4, 6, 9, 11} THEN 30 ELSE 31

RECURSIVE DaysBeforeMonth(_, _)
DaysBeforeMonth(y, m) ==
    IF m = 1 THEN 0 ELSE DaysBeforeMonth(y, m - 1) + DaysInMonth(y, m - 1)

\* date(y, m, d).toordinal()
DateOrd(y, m, d) == DaysBeforeYear(y) + DaysBeforeMonth(y, m) + d

\* date.fromordinal(n).year
YearOf(n) ==
    LET n0   == n - 1
        n400 == n0 \div 146097
        r400 == n0 % 146097
        n100 == r400 \div 36524
        r100 == r400 % 36524
        n4   == r100 \div 1461
        r4   == r100 % 1461
        n1   == r4 \div 365
        y    == n400 * 400 + 1 + n100 * 100 + n4 * 4 + n1
    IN  IF n1 = 4 \/ n100 = 4 THEN y - 1 ELSE y

\* date.fromordinal(n).month
MonthOf(n) ==
    LET y == YearOf(n)
        k == n - DaysBeforeYear(y)
    IN  CHOOSE m \in 1..12 :
            DaysBeforeMonth(y, m) < k /\ k <= DaysBeforeMonth(y, m) + DaysInMonth(y, m)

\* date.fromordinal(n).day
DayOf(n) ==
    LET y == YearOf(n) IN n - DaysBeforeYear(y) - DaysBeforeMonth(y, MonthOf(n))

\* Whether an ordinal is a date the date type can hold.
DateInRange(n) == n >= MinOrdinal /\ n <= MaxOrdinal

\* ---------------------------------------------------------- WeatherRecord

\* The validation of WeatherRecord.__post_init__: TRUE when it raises.
PostInitRaisesEq(max_temp_c, min_temp_c) == max_temp_c <= min_temp_c
PostInitSkipped(max_temp_c, min_temp_c) == FALSE

PostInitRaises(max_temp_c, min_temp_c) == max_temp_c < min_temp_c

\* The dataclass value WeatherRecord(...) when construction succeeds.
WeatherRecord(record_date, year, loc, max_temp_c, min_temp_c, precipitation_mm) ==
    [record_date      |-> record_date,
     year             |-> year,
     location         |-> loc,
     max_temp_c       |-> max_temp_c,
     min_temp_c       |-> min_temp_c,
     precipitation_mm |-> precipitation_mm]

\* ------------------------------------------- IWeatherRepository providers

\* What one get_historical_weather call does: it raises, or returns a list.
Raised == [raised |-> TRUE, records |-> <<>>]
Returned(records) == [raised |-> FALSE, records |-> records]

\* MockWeatherRepository.get_historical_weather: one record per day of
\* [start, end], built through WeatherRecord (whose check may raise).
MockRecord(d) ==
    WeatherRecord(d, YearOf(d), "Mock Location",
                  20 + (DayOf(d) % 10), 10 + (DayOf(d) % 5), DayOf(d) % 5)

MockOutcome(start, end) ==
    IF \E d \in start..end : PostInitRaises(20 + (DayOf(d) % 10), 10 + (DayOf(d) % 5))
    THEN Raised
    ELSE Returned([i \in 1..(end - start + 1) |-> MockRecord(start + i - 1)])

\* An arbitrary provider behind the interface: any call may raise, or return
\* an empty list, one record, two records in either order, or a repeated one.
StubRecord(d, t) == WeatherRecord(d, YearOf(d), "", 20 + t, 10 + t, t)

StubOutcomes(start, end) ==
    LET a == StubRecord(start, 0)
        b == StubRecord(start + 1, 1)
    IN  {Raised, Returned(<<>>), Returned(<<a>>), Returned(<<a, b>>),
         Returned(<<b, a>>), Returned(<<a, a>>)}

\* The provider double of the worked scenario: three records (max 20, 21, 22)
\* for 2024-01-01..2024-01-03, raises for 2023-01-01..2023-01-03, and has no
\* data for any other window.
ScenarioRecords ==
    [i \in 1..3 |-> WeatherRecord(DateOrd(2024, 1, 1) + i - 1, 2024, "", 19 + i, 9 + i, 0)]

ScenarioOutcome(start, end) ==
    IF start = DateOrd(2023, 1, 1) /\ end = DateOrd(2023, 1, 3) THEN Raised
    ELSE IF start = DateOrd(2024, 1, 1) /\ end = DateOrd(2024, 1, 3)
         THEN Returned(ScenarioRecords)
         ELSE Returned(<<>>)

Repositories == {"Stub", "Mock", "Scenario"}

\* self.weather_repo.get_historical_weather(latitude, longitude, start, end)
ProviderOutcomes(repo, start, end) ==
    IF repo = "Mock" THEN {MockOutcome(start, end)}
    ELSE IF repo = "Scenario" THEN {ScenarioOutcome(start, end)}
    ELSE StubOutcomes(start, end)

\* ------------------------------------------------------- inputs of a call

Locations == {"Testville", "Atlantis"}

\* What the geocoding resolver can return: (latitude, longitude) pairs.
Coordinates == {<<10, 20>>, <<-33, 151>>}

\* Start dates: the scenario's, one after a leap day, and two next to date.min.
StartDates == {DateOrd(2024, 1, 1), DateOrd(2024, 3, 1), DateOrd(2, 1, 1), DateOrd(1, 12, 31)}

\* end_date - start_date; -1 is a window whose end lies before its start.
WindowSpans == -1..MaxWindowSpan

\* ------------------------------------------------------------------ state

VARIABLES
    pc,              \* position of the worker / service call
    location, start_date, end_date, years_past, weather_repo,   \* the call's arguments
    latitude, longitude,     \* what get_coordinates returned
    iter,            \* position of the for loop in range(years_past + 1)
    year_offset, current_start, current_end,   \* locals of one loop iteration
    all_records,     \* the accumulator
    result,          \* the returned list
    error,           \* the exception that left fetch_weather_for_range ("" = none)
    geo_calls,       \* log of get_coordinates calls
    provider_calls,  \* log of get_historical_weather calls
    signals,         \* terminal signals the worker emitted
    rec_args,        \* arguments of the last WeatherRecord(...) construction
    rec_raised,      \* whether that construction raised ValueError
    rec_out,         \* the record it yielded (a list of at most one record)
    \* one get_historical_weather call of a provider implementation
    p_impl,          \* which implementation is called
    p_pc,            \* position of the call
    p_start, p_end,  \* its window
    p_current,       \* current_date of the day loop
    p_records,       \* the local list records
    p_requests,      \* log of the HTTP requests it issued and how each was answered
    p_error,         \* the exception that left the call
    p_result,        \* the returned list
    \* one get_coordinates call of GeocodingRepository
    g_response,      \* the HTTP answer it got (a list of at most one answer)
    g_outcome,       \* what the call did with it
    \* two fetch_weather_for_range invocations on one WeatherService
    c_pc, c_years, c_start, c_iter, c_window, c_acc, c_result, c_calls,
    \* ExportService: the target directory and file, and the calls made so far
    e_dir, e_file, e_calls,
    \* the date-range inputs of the main window and the windows of a fetch
    w_today, w_preset, w_start, w_end, w_years, w_fetch,
    \* the main window and its worker threads
    u_worker,        \* self.worker_thread (0 is None)
    u_running,       \* the workers whose run() has not returned
    u_queue,         \* signals of the workers queued for the main thread
    u_fetch_button,  \* whether the fetch button is enabled
    u_export,        \* which of the export buttons are enabled
    u_data_df,       \* the number of rows of self.data_df (-1 is None)
    u_status,        \* the last status bar message
    u_started,       \* how many workers were started
    u_emitted,       \* the terminal signals each worker emitted
    u_finished       \* how the fetches that came to the main thread ended, in order

vars == <<pc, location, start_date, end_date, years_past, weather_repo,
          latitude, longitude, iter, year_offset, current_start, current_end,
          all_records, result, error, geo_calls, provider_calls, signals,
          rec_args, rec_raised, rec_out,
          p_impl, p_pc, p_start, p_end, p_current, p_records, p_requests, p_error, p_result,
          g_response, g_outcome,
          c_pc, c_years, c_start, c_iter, c_window, c_acc, c_result, c_calls,
          e_dir, e_file, e_calls,
          w_today, w_preset, w_start, w_end, w_years, w_fetch,
          u_worker, u_running, u_queue, u_fetch_button, u_export, u_data_df, u_status,
          u_started, u_emitted, u_finished>>

args == <<location, start_date, end_date, years_past, weather_repo>>
locals == <<year_offset, current_start, current_end>>
recvars == <<rec_args, rec_raised, rec_out>>
pvars == <<p_impl, p_pc, p_start, p_end, p_current, p_records, p_requests, p_error, p_result>>
gvars == <<g_response, g_outcome>>
cvars == <<c_pc, c_years, c_start, c_iter, c_window, c_acc, c_result, c_calls>>
evars == <<e_dir, e_file, e_calls>>
wvars == <<w_today, w_preset, w_start, w_end, w_years, w_fetch>>
uvars == <<u_worker, u_running, u_queue, u_fetch_button, u_export, u_data_df, u_status,
           u_started, u_emitted, u_finished>>
xvars == <<evars, wvars, uvars>>
svcvars == <<pc, args, latitude, longitude, iter, locals, all_records, result, error,
             geo_calls, provider_calls, signals>>

\* An exception, by class and message text; NoError when none was raised.
NoError == [type |-> "", message |-> ""]

\* The invocations of the concurrent runs.
Invocations == {1, 2}

\* -------------------------------------- WeatherService (core/services.py)

\* range(years_past + 1), as the sequence the for loop walks.
RangeFromOne(n) == [i \in 1..n |-> i]
RangeOffsets(n) == [i \in 1..(n + 1) |-> i - 1]

\* timedelta(days=365 * year_offset), in days.
DateOffsetCalendar(k) == 366 * k
DateOffset(k) == DaysPerYearOffset * k

\* all_records.extend(period_records)
ExtendFront(acc, period_records) == period_records \o acc
Extend(acc, period_records) == acc \o period_records

\* except Exception: ... continue -- the accumulator after a failed offset.
ResetOnFailure(acc) == <<>>
KeepOnFailure(acc) == acc

\* The loop position after the except branch's continue.
BreakLoop(i, n) == n + 2
ContinueLoop(i, n) == i + 1

\* The coordinates handed to the provider.
SwappedCoordinates(lat, lon) == <<lon, lat>>
CallCoordinates(lat, lon) == <<lat, lon>>

\* One get_coordinates(location) call, as the resolver saw and answered it.
LogGeocode(raised, c) ==
    [location |-> location, raised |-> raised, latitude |-> c[1], longitude |-> c[2]]

Init ==
    /\ pc = "Idle"
    /\ location = ""
    /\ start_date = 0
    /\ end_date = 0
    /\ years_past = 0
    /\ weather_repo = ""
    /\ latitude = 0
    /\ longitude = 0
    /\ iter = 0
    /\ year_offset = 0
    /\ current_start = 0
    /\ current_end = 0
    /\ all_records = <<>>
    /\ result = <<>>
    /\ error = ""
    /\ geo_calls = <<>>
    /\ provider_calls = <<>>
    /\ signals = <<>>
    /\ rec_args = <<>>
    /\ rec_raised = FALSE
    /\ rec_out = <<>>
    /\ p_impl = ""
    /\ p_pc = "Idle"
    /\ p_start = 0
    /\ p_end = 0
    /\ p_current = 0
    /\ p_records = <<>>
    /\ p_requests = <<>>
    /\ p_error = NoError
    /\ p_result = <<>>
    /\ g_response = <<>>
    /\ g_outcome = <<>>
    /\ c_pc = [i \in Invocations |-> "Idle"]
    /\ c_years = [i \in Invocations |-> 0]
    /\ c_start = [i \in Invocations |-> 0]
    /\ c_iter = [i \in Invocations |-> 0]
    /\ c_window = [i \in Invocations |-> <<0, 0>>]
    /\ c_acc = [i \in Invocations |-> <<>>]
    /\ c_result = [i \in Invocations |-> <<>>]
    /\ c_calls = [i \in Invocations |-> <<>>]
    /\ e_dir = "missing"
    /\ e_file = "none"
    /\ e_calls = <<>>
    /\ w_today = 0
    /\ w_preset = ""
    /\ w_start = 0
    /\ w_end = 0
    /\ w_years = 0
    /\ w_fetch = <<>>
    /\ u_worker = 0
    /\ u_running = {}
    /\ u_queue = <<>>
    /\ u_fetch_button = TRUE
    /\ u_export = {}
    /\ u_data_df = "unset"
    /\ u_status = ""
    /\ u_started = 0
    /\ u_emitted = <<>>
    /\ u_finished = <<>>

\* WeatherDataWorker.run calls fetch_weather_for_range(location, start, end, years).
WorkerRun ==
    /\ pc = "Idle"
    /\ \E loc \in Locations, s \in StartDates, span \in WindowSpans,
          n \in 0..MaxYearsBack, repo \in Repositories :
          /\ location' = loc
          /\ start_date' = s
          /\ end_date' = s + span
          /\ years_past' = n
          /\ weather_repo' = repo
    /\ pc' = "ResolvingLocation"
    /\ UNCHANGED <<recvars, xvars, pvars, gvars, cvars, latitude, longitude, iter, locals, all_records, result, error,
                   geo_calls, provider_calls, signals>>

\* get_coordinates returns: the pair is unpacked, all_records = [] and the
\* loop starts.
GeocodeReturns ==
    /\ pc = "ResolvingLocation"
    /\ \E c \in Coordinates :
          /\ latitude' = c[1]
          /\ longitude' = c[2]
          /\ geo_calls' = Append(geo_calls, LogGeocode(FALSE, c))
    /\ all_records' = <<>>
    /\ iter' = 1
    /\ pc' = "LoopHead"
    /\ UNCHANGED <<recvars, xvars, pvars, gvars, cvars, args, locals, result, error, provider_calls, signals>>

\* get_coordinates raises: except Exception -> raise ValueError.
GeocodeRaisesSwallowed ==
    /\ pc = "ResolvingLocation"
    /\ geo_calls' = Append(geo_calls, LogGeocode(TRUE, <<0, 0>>))
    /\ latitude' = 0
    /\ longitude' = 0
    /\ all_records' = <<>>
    /\ iter' = 1
    /\ pc' = "LoopHead"
    /\ UNCHANGED <<recvars, xvars, pvars, gvars, cvars, args, locals, result, error, provider_calls, signals>>

GeocodeRaises ==
    /\ pc = "ResolvingLocation"
    /\ geo_calls' = Append(geo_calls, LogGeocode(TRUE, <<0, 0>>))
    /\ error' = "ValueError"
    /\ pc' = "Failed"
    /\ UNCHANGED <<recvars, xvars, pvars, gvars, cvars, args, latitude, longitude, iter, locals, all_records, result,
                   provider_calls, signals>>

\* The head of one loop iteration: the window is start/end minus the offset
\* (the variant moves only the start).
BeginOffsetEndUnshifted ==
    /\ pc = "LoopHead"
    /\ iter <= Len(RangeOffsets(years_past))
    /\ LET k == RangeOffsets(years_past)[iter] IN
          /\ DateInRange(start_date - DateOffset(k))
          /\ DateInRange(end_date - DateOffset(k))
          /\ year_offset' = k
          /\ current_start' = start_date - DateOffset(k)
          /\ current_end' = end_date
    /\ pc' = "FetchingYear"
    /\ UNCHANGED <<recvars, xvars, pvars, gvars, cvars, args, latitude, longitude, iter, all_records, result, error,
                   geo_calls, provider_calls, signals>>

BeginOffset ==
    /\ pc = "LoopHead"
    /\ iter <= Len(RangeOffsets(years_past))
    /\ LET k == RangeOffsets(years_past)[iter] IN
          /\ DateInRange(start_date - DateOffset(k))
          /\ DateInRange(end_date - DateOffset(k))
          /\ year_offset' = k
          /\ current_start' = start_date - DateOffset(k)
          /\ current_end' = end_date - DateOffset(k)
    /\ pc' = "FetchingYear"
    /\ UNCHANGED <<recvars, xvars, pvars, gvars, cvars, args, latitude, longitude, iter, all_records, result, error,
                   geo_calls, provider_calls, signals>>

\* The date subtraction leaves the date range: OverflowError, raised outside
\* the try block, so it leaves the call.
OffsetOverflow ==
    /\ pc = "LoopHead"
    /\ iter <= Len(RangeOffsets(years_past))
    /\ LET k == RangeOffsets(years_past)[iter] IN
          /\ ~ (DateInRange(start_date - DateOffset(k)) /\ DateInRange(end_date - DateOffset(k)))
          /\ year_offset' = k
    /\ error' = "OverflowError"
    /\ pc' = "Failed"
    /\ UNCHANGED <<recvars, xvars, pvars, gvars, cvars, args, latitude, longitude, iter, current_start, current_end,
                   all_records, result, geo_calls, provider_calls, signals>>

LogCall(outcome) ==
    [offset    |-> year_offset,
     latitude  |-> CallCoordinates(latitude, longitude)[1],
     longitude |-> CallCoordinates(latitude, longitude)[2],
     start     |-> current_start,
     end       |-> current_end,
     raised    |-> outcome.raised,
     records   |-> outcome.records]

\* The provider call returns a list: it is appended to the accumulator.
ProviderReturns ==
    /\ pc = "FetchingYear"
    /\ \E o \in ProviderOutcomes(weather_repo, current_start, current_end) :
          /\ ~ o.raised
          /\ provider_calls' = Append(provider_calls, LogCall(o))
          /\ all_records' = Extend(all_records, o.records)
    /\ iter' = iter + 1
    /\ pc' = "LoopHead"
    /\ UNCHANGED <<recvars, xvars, pvars, gvars, cvars, args, latitude, longitude, locals, result, error, geo_calls, signals>>

\* The provider call raises: except Exception -> log, continue.
ProviderRaisesPropagates ==
    /\ pc = "FetchingYear"
    /\ \E o \in ProviderOutcomes(weather_repo, current_start, current_end) :
          /\ o.raised
          /\ provider_calls' = Append(provider_calls, LogCall(o))
    /\ error' = "ProviderError"
    /\ pc' = "Failed"
    /\ UNCHANGED <<recvars, xvars, pvars, gvars, cvars, args, latitude, longitude, iter, locals, all_records, result,
                   geo_calls, signals>>

ProviderRaises ==
    /\ pc = "FetchingYear"
    /\ \E o \in ProviderOutcomes(weather_repo, current_start, current_end) :
          /\ o.raised
          /\ provider_calls' = Append(provider_calls, LogCall(o))
    /\ all_records' = KeepOnFailure(all_records)
    /\ iter' = ContinueLoop(iter, years_past)
    /\ pc' = "LoopHead"
    /\ UNCHANGED <<recvars, xvars, pvars, gvars, cvars, args, latitude, longitude, locals, result, error, geo_calls, signals>>

\* The range is exhausted: return all_records.
Return ==
    /\ pc = "LoopHead"
    /\ iter > Len(RangeOffsets(years_past))
    /\ result' = all_records
    /\ pc' = "Done"
    /\ UNCHANGED <<recvars, xvars, pvars, gvars, cvars, args, latitude, longitude, iter, locals, all_records, error,
                   geo_calls, provider_calls, signals>>

\* ---------------------------------- WeatherDataWorker.run (main_window.py)

\* The signal run() emits for a returned list.
SignalErrorWhenEmpty(records) ==
    IF records = <<>> THEN [signal |-> "fetch_error", records |-> <<>>]
    ELSE [signal |-> "fetch_completed", records |-> records]
CompletedSignal(records) == [signal |-> "fetch_completed", records |-> records]

\* fetch_weather_for_range returned: fetch_completed.emit(records).
WorkerEmitCompleted ==
    /\ pc = "Done"
    /\ signals' = Append(signals, CompletedSignal(result))
    /\ pc' = "Finished"
    /\ UNCHANGED <<recvars, xvars, pvars, gvars, cvars, args, latitude, longitude, iter, locals, all_records, result, error,
                   geo_calls, provider_calls>>

\* fetch_weather_for_range raised: except Exception -> fetch_error.emit(str(e)).
WorkerEmitError ==
    /\ pc = "Failed"
    /\ signals' = Append(signals, [signal |-> "fetch_error", records |-> <<>>])
    /\ pc' = "Finished"
    /\ UNCHANGED <<recvars, xvars, pvars, gvars, cvars, args, latitude, longitude, iter, locals, all_records, result, error,
                   geo_calls, provider_calls>>

Next ==
    \/ WorkerRun
    \/ GeocodeReturns
    \/ GeocodeRaises
    \/ BeginOffset
    \/ OffsetOverflow
    \/ ProviderReturns
    \/ ProviderRaises
    \/ Return
    \/ WorkerEmitCompleted
    \/ WorkerEmitError

Spec == Init /\ [][Next]_vars

\* The worker thread runs the call sequentially, and every resolver or
\* provider call it blocks on returns or raises: an enabled step is
\* eventually taken.
FairSpec == Spec /\ WF_vars(Next)

\* ----------------------------------- WeatherRecord construction on its own

RecordDates == {DateOrd(2024, 1, 1), DateOrd(2023, 12, 31)}
Temps == (-MaxTemp)..MaxTemp
Precipitations == {0, 5}

\* WeatherRecord(record_date, year, location, max, min, precipitation):
\* the dataclass __init__ stores the fields, then __post_init__ validates.
Construct ==
    /\ \E d \in RecordDates, loc \in {"", "Testville"}, mx \in Temps, mn \in Temps,
          p \in Precipitations :
          /\ rec_args' = <<d, YearOf(d), loc, mx, mn, p>>
          /\ rec_raised' = PostInitRaises(mx, mn)
          /\ rec_out' = IF PostInitRaises(mx, mn) THEN <<>>
                        ELSE <<WeatherRecord(d, YearOf(d), loc, mx, mn, p)>>
    /\ UNCHANGED <<svcvars, xvars, pvars, gvars, cvars>>

NextRecord == Construct

SpecRecord == Init /\ [][NextRecord]_vars

\* ------------------------------------ the HTTP providers (repositories/*.py)
\* A JSON value of a response is a number or null.  Null stands for JSON null
\* (Python None); it lies outside every temperature that is drawn.
Null == -1000000

Implementations == {"OpenMeteo", "OpenWeather", "PirateWeather", "AccuWeather", "Mock"}
PerDay == {"OpenWeather", "PirateWeather", "AccuWeather"}

\* Windows of a provider call: end = start + span, span = -1 is start > end.
MaxDaySpan == 2
ProviderStartDates == {DateOrd(2024, 1, 1)}
DaySpans == -1..MaxDaySpan

MaxTempValues == {Null, -MaxTemp, MaxTemp}
MinTempValues == {Null, -MaxTemp, MaxTemp}
PrecipitationValues == {Null, 2}

\* The exceptions that leave a provider call.
NetworkErrorRaw ==
    [type |-> "RequestException", message |-> "Network error while fetching weather data"]

NetworkError ==
    [type |-> "ValueError", message |-> "Network error while fetching weather data"]

ParseError ==
    [type |-> "ValueError", message |-> "Error parsing weather API response"]

NoDailyError ==
    [type |-> "ValueError", message |-> "API response did not contain 'daily' data."]

ValidationError ==
    [type |-> "ValueError",
     message |-> "Maximum temperature cannot be less than minimum temperature"]

NoneComparisonError ==
    [type |-> "TypeError", message |-> "'<' not supported between NoneType and float"]

LookupTransportError ==
    [type |-> "RequestException", message |-> ""]

NoLocationKeyError ==
    [type |-> "ValueError", message |-> "Could not get location key from AccuWeather"]

ProviderFailed(e) == [raised |-> TRUE, error |-> e, records |-> <<>>]
ProviderSucceeded(records) == [raised |-> FALSE, error |-> NoError, records |-> records]

\* One logged request: its kind (range, day, lookup), the day asked for, how
\* it was answered, and for a day answered with data the date and values the
\* answer carried.
Request(kind, d, outcome, returned, mx, mn) ==
    [kind |-> kind, date |-> d, outcome |-> outcome, returned |-> returned,
     max |-> mx, min |-> mn]

\* --- WeatherRepository (Open-Meteo): one request for the whole range.
\* "x if x is not None else 0.0".
NullDefault(v) == IF v = Null THEN 0 ELSE v

RangeRecordStamped(d, mx, mn, pr) == WeatherRecord(d, YearOf(d), "Open-Meteo", mx, mn, pr)

RangeRecord(d, mx, mn, pr) == WeatherRecord(d, YearOf(d), "", mx, mn, pr)

\* The answers to the range request.  A "daily" answer has n dates and three
\* arrays; short names the array, if any, that is one entry shorter than the
\* dates.
MaxRangeRows == 2
DailyAnswers ==
    UNION {[kind : {"daily"}, n : {n},
            tmax : [1..n -> MaxTempValues], tmin : [1..n -> MinTempValues],
            precip : [1..n -> PrecipitationValues],
            short : IF n = 0 THEN {""} ELSE {"", "temperature_2m_max",
                                             "temperature_2m_min", "precipitation_sum"}]
           : n \in 0..MaxRangeRows}

EmptyAnswer(kind) ==
    [kind |-> kind, n |-> 0, tmax |-> <<>>, tmin |-> <<>>, precip |-> <<>>, short |-> ""]

RangeAnswers == DailyAnswers \cup {EmptyAnswer("transport"), EmptyAnswer("nodaily")}

\* The loop over enumerate(dates): row i reads the three arrays, then builds
\* the record; the first exception ends the call.
RECURSIVE RangeRows(_, _, _, _)
RangeRows(answer, start, i, acc) ==
    IF i > answer.n THEN ProviderSucceeded(acc)
    ELSE IF i = answer.n /\ answer.short # "" THEN ProviderFailed(ParseError)
    ELSE LET max_temp == NullDefault(answer.tmax[i])
             min_temp == NullDefault(answer.tmin[i])
             precipitation == NullDefault(answer.precip[i])
         IN  IF PostInitRaises(max_temp, min_temp)
             THEN ProviderFailed(ValidationError)
             ELSE RangeRows(answer, start, i + 1,
                            Append(acc, RangeRecord(start + i - 1, max_temp,
                                                    min_temp, precipitation)))

RangeOutcome(answer, start) ==
    IF answer.kind = "transport" THEN ProviderFailed(NetworkError)
    ELSE IF answer.kind = "nodaily" THEN ProviderFailed(NoDailyError)
    ELSE RangeRows(answer, start, 1, <<>>)

\* The whole call of WeatherRepository.get_historical_weather.
OpenMeteoCall ==
    /\ p_pc = "Idle"
    /\ \E start \in ProviderStartDates, span \in DaySpans, answer \in RangeAnswers :
          LET o == RangeOutcome(answer, start)
          IN  /\ p_impl' = "OpenMeteo"
              /\ p_start' = start
              /\ p_end' = start + span
              /\ p_current' = start
              /\ p_requests' = <<[kind |-> "range", date |-> start,
                                  outcome |-> answer.kind, answer |-> answer]>>
              /\ p_records' = o.records
              /\ p_result' = o.records
              /\ p_error' = o.error
              /\ p_pc' = IF o.raised THEN "Raised" ELSE "Returned"
    /\ UNCHANGED <<svcvars, recvars, xvars, gvars, cvars>>

\* --- MockWeatherRepository: no request at all.
MockCall ==
    /\ p_pc = "Idle"
    /\ \E start \in ProviderStartDates, span \in DaySpans :
          LET o == MockOutcome(start, start + span)
          IN  /\ p_impl' = "Mock"
              /\ p_start' = start
              /\ p_end' = start + span
              /\ p_current' = start
              /\ p_requests' = <<>>
              /\ p_records' = o.records
              /\ p_result' = o.records
              /\ p_error' = NoError
              /\ p_pc' = "Returned"
    /\ UNCHANGED <<svcvars, recvars, xvars, gvars, cvars>>

\* --- the per-day providers: OpenWeather, PirateWeather, AccuWeather.
\* OpenWeather reports one temperature, in Kelvin when above the threshold;
\* whole degrees stand for the code's 273.15.
KelvinThreshold == 200
KelvinOffset == 273
KelvinToCelsius(temp) == IF temp > KelvinThreshold THEN temp - KelvinOffset ELSE temp

OpenWeatherTemps == {Null, MaxTemp, KelvinOffset + MaxTemp}
DayPrecipitations == PrecipitationValues \ {Null}

\* What one day's data becomes: a record, or the exception of that day.
OpenWeatherDay(current_date, temp, precipitation) ==
    IF temp = Null THEN ProviderFailed(NoneComparisonError)
    ELSE LET temp_c == KelvinToCelsius(temp)
         IN  ProviderSucceeded(<<WeatherRecord(current_date, YearOf(current_date), "",
                                               temp_c, temp_c, precipitation)>>)

\* PirateWeather: the date of the record.
KeepRequestedDate(current_date, timestamp_date) == current_date

RecordDate(current_date, timestamp_date) ==
    IF timestamp_date # current_date THEN timestamp_date ELSE current_date

\* The dates a PirateWeather answer may carry for a requested day.
ReturnedDates(impl, current_date) ==
    IF impl = "PirateWeather" THEN {current_date - 1, current_date} ELSE {current_date}

\* PirateWeather's record with the year of the requested day instead.
PirateDayRequestedYear(current_date, timestamp_date, max_temp, min_temp, precipitation) ==
    LET record_date == RecordDate(current_date, timestamp_date)
    IN  IF max_temp = Null \/ min_temp = Null THEN ProviderFailed(NoneComparisonError)
        ELSE IF PostInitRaises(max_temp, min_temp) THEN ProviderFailed(ParseError)
        ELSE ProviderSucceeded(<<WeatherRecord(record_date, YearOf(current_date), "",
                                               max_temp, min_temp, precipitation)>>)

PirateDay(current_date, timestamp_date, max_temp, min_temp, precipitation) ==
    LET record_date == RecordDate(current_date, timestamp_date)
    IN  IF max_temp = Null \/ min_temp = Null THEN ProviderFailed(NoneComparisonError)
        ELSE IF PostInitRaises(max_temp, min_temp) THEN ProviderFailed(ParseError)
        ELSE ProviderSucceeded(<<WeatherRecord(record_date, YearOf(record_date), "",
                                               max_temp, min_temp, precipitation)>>)

AccuDay(current_date, max_temp, min_temp, precipitation) ==
    IF max_temp = Null \/ min_temp = Null THEN ProviderFailed(NoneComparisonError)
    ELSE IF PostInitRaises(max_temp, min_temp) THEN ProviderFailed(ParseError)
    ELSE ProviderSucceeded(<<WeatherRecord(current_date, YearOf(current_date), "",
                                           max_temp, min_temp, precipitation)>>)

DayOutcome(impl, current_date, timestamp_date, max_temp, min_temp, precipitation) ==
    IF impl = "OpenWeather" THEN OpenWeatherDay(current_date, max_temp, precipitation)
    ELSE IF impl = "PirateWeather"
         THEN PirateDay(current_date, timestamp_date, max_temp, min_temp, precipitation)
    ELSE AccuDay(current_date, max_temp, min_temp, precipitation)

\* The values one day's answer may carry: OpenWeather has one temperature.
DayValues(impl) ==
    IF impl = "OpenWeather" THEN {<<t, t>> : t \in OpenWeatherTemps}
    ELSE MaxTempValues \X MinTempValues

\* "current_date += timedelta(days=1)" of the no-data branch and of the loop's
\* end; NoAdvance is the branch without it.
NoAdvance(current_date) == current_date

NextDayAfterSkip(current_date) == current_date + 1

NextDay(current_date) == current_date + 1

\* Entry of get_historical_weather: records = [], current_date = start_date.
PerDayCall ==
    /\ p_pc = "Idle"
    /\ \E impl \in PerDay, start \in ProviderStartDates, span \in DaySpans :
          /\ p_impl' = impl
          /\ p_start' = start
          /\ p_end' = start + span
          /\ p_current' = start
          /\ p_pc' = IF impl = "AccuWeather" THEN "Lookup" ELSE "Loop"
    /\ p_records' = <<>>
    /\ UNCHANGED <<p_requests, p_error, p_result>>
    /\ UNCHANGED <<svcvars, recvars, xvars, gvars, cvars>>

\* AccuWeather._get_location_key: one request, outside any try of the caller.
LookupReturnsKey ==
    /\ p_pc = "Lookup"
    /\ p_requests' = Append(p_requests, Request("lookup", p_start, "key", 0, 0, 0))
    /\ p_pc' = "Loop"
    /\ UNCHANGED <<p_impl, p_start, p_end, p_current, p_records, p_error, p_result>>
    /\ UNCHANGED <<svcvars, recvars, xvars, gvars, cvars>>

LookupReturnsEmptyKey ==
    /\ p_pc = "Lookup"
    /\ p_requests' = Append(p_requests, Request("lookup", p_start, "nokey", 0, 0, 0))
    /\ p_error' = NoLocationKeyError
    /\ p_pc' = "Raised"
    /\ UNCHANGED <<p_impl, p_start, p_end, p_current, p_records, p_result>>
    /\ UNCHANGED <<svcvars, recvars, xvars, gvars, cvars>>

LookupTransportFails ==
    /\ p_pc = "Lookup"
    /\ p_requests' = Append(p_requests, Request("lookup", p_start, "transport", 0, 0, 0))
    /\ p_error' = LookupTransportError
    /\ p_pc' = "Raised"
    /\ UNCHANGED <<p_impl, p_start, p_end, p_current, p_records, p_result>>
    /\ UNCHANGED <<svcvars, recvars, xvars, gvars, cvars>>

\* One iteration of "while current_date <= end_date", by how the request of
\* the day is answered.
InDayLoop == p_pc = "Loop" /\ p_current <= p_end

DayTransportSwallowed ==
    /\ InDayLoop
    /\ p_requests' = Append(p_requests, Request("day", p_current, "transport", 0, 0, 0))
    /\ p_current' = NextDay(p_current)
    /\ UNCHANGED <<p_impl, p_pc, p_start, p_end, p_records, p_error, p_result>>
    /\ UNCHANGED <<svcvars, recvars, xvars, gvars, cvars>>

DayTransportFails ==
    /\ InDayLoop
    /\ p_requests' = Append(p_requests, Request("day", p_current, "transport", 0, 0, 0))
    /\ p_error' = NetworkError
    /\ p_pc' = "Raised"
    /\ UNCHANGED <<p_impl, p_start, p_end, p_current, p_records, p_result>>
    /\ UNCHANGED <<svcvars, recvars, xvars, gvars, cvars>>

DayMalformed ==
    /\ InDayLoop
    /\ p_requests' = Append(p_requests, Request("day", p_current, "malformed", 0, 0, 0))
    /\ p_error' = ParseError
    /\ p_pc' = "Raised"
    /\ UNCHANGED <<p_impl, p_start, p_end, p_current, p_records, p_result>>
    /\ UNCHANGED <<svcvars, recvars, xvars, gvars, cvars>>

DayNoDataRaises ==
    /\ InDayLoop
    /\ p_requests' = Append(p_requests, Request("day", p_current, "nodata", 0, 0, 0))
    /\ p_error' = ParseError
    /\ p_pc' = "Raised"
    /\ UNCHANGED <<p_impl, p_start, p_end, p_current, p_records, p_result>>
    /\ UNCHANGED <<svcvars, recvars, xvars, gvars, cvars>>

DayNoData ==
    /\ InDayLoop
    /\ p_requests' = Append(p_requests, Request("day", p_current, "nodata", 0, 0, 0))
    /\ p_current' = NextDayAfterSkip(p_current)
    /\ UNCHANGED <<p_impl, p_pc, p_start, p_end, p_records, p_error, p_result>>
    /\ UNCHANGED <<svcvars, recvars, xvars, gvars, cvars>>

DayData ==
    /\ InDayLoop
    /\ \E v \in DayValues(p_impl), timestamp_date \in ReturnedDates(p_impl, p_current),
          precipitation \in DayPrecipitations :
          LET o == DayOutcome(p_impl, p_current, timestamp_date, v[1], v[2], precipitation)
          IN  /\ p_requests' = Append(p_requests,
                                      Request("day", p_current, "data", timestamp_date,
                                              v[1], v[2]))
              /\ IF o.raised
                 THEN /\ p_error' = o.error
                      /\ p_pc' = "Raised"
                      /\ UNCHANGED <<p_current, p_records>>
                 ELSE /\ p_records' = p_records \o o.records
                      /\ p_current' = NextDay(p_current)
                      /\ UNCHANGED <<p_error, p_pc>>
    /\ UNCHANGED <<p_impl, p_start, p_end, p_result>>
    /\ UNCHANGED <<svcvars, recvars, xvars, gvars, cvars>>

\* The loop condition fails: "return records".
DayLoopEnds ==
    /\ p_pc = "Loop"
    /\ p_current > p_end
    /\ p_result' = p_records
    /\ p_pc' = "Returned"
    /\ UNCHANGED <<p_impl, p_start, p_end, p_current, p_records, p_requests, p_error>>
    /\ UNCHANGED <<svcvars, recvars, xvars, gvars, cvars>>

NextProvider ==
    \/ OpenMeteoCall
    \/ MockCall
    \/ PerDayCall
    \/ LookupReturnsKey
    \/ LookupReturnsEmptyKey
    \/ LookupTransportFails
    \/ DayTransportFails
    \/ DayMalformed
    \/ DayNoData
    \/ DayData
    \/ DayLoopEnds

SpecProvider == Init /\ [][NextProvider]_vars

\* The per-day providers on their own, where every request is answered and
\* every step of the call is taken.
NextPerDay ==
    \/ PerDayCall
    \/ LookupReturnsKey
    \/ LookupReturnsEmptyKey
    \/ LookupTransportFails
    \/ DayTransportFails
    \/ DayMalformed
    \/ DayNoData
    \/ DayData
    \/ DayLoopEnds

FairSpecPerDay == Init /\ [][NextPerDay]_vars /\ WF_vars(NextPerDay)

\* ------------------- GeocodingRepository.get_coordinates (geocoding_repository.py)
\* Absent marks a key that a result object does not have.
Absent == -2000000
MaxResults == 2
GeoResults == [latitude : {Absent, 10, -33}, longitude : {Absent, 20, 151}]
GeoAnswers ==
    {[kind |-> "transport", results |-> <<>>]}
    \cup {[kind |-> "json", results |-> r] :
             r \in UNION {[1..n -> GeoResults] : n \in 0..MaxResults}}

GeoNotFoundError == [type |-> "ValueError", message |-> "Location not found."]
GeoNetworkError ==
    [type |-> "ValueError", message |-> "Network error while fetching coordinates"]
GeoParseError == [type |-> "ValueError", message |-> "Error parsing API response"]

GeoFailed(e) == [raised |-> TRUE, error |-> e, coordinates |-> <<>>]

\* data["results"][0]
LastResult(results) == results[Cardinality(DOMAIN results)]

FirstResult(results) == results[1]

GetCoordinates(answer) ==
    IF answer.kind = "transport" THEN GeoFailed(GeoNetworkError)
    ELSE IF DOMAIN answer.results = {} THEN GeoFailed(GeoNotFoundError)
    ELSE LET first == FirstResult(answer.results)
         IN  IF first.latitude = Absent \/ first.longitude = Absent
             THEN GeoFailed(GeoParseError)
             ELSE [raised |-> FALSE, error |-> NoError,
                   coordinates |-> <<first.latitude, first.longitude>>]

\* One call of get_coordinates, with the answer of its one request.
GetCoordinatesCall ==
    /\ g_outcome = <<>>
    /\ \E location_name \in Locations, answer \in GeoAnswers :
          /\ g_response' = <<[location_name |-> location_name, answer |-> answer]>>
          /\ g_outcome' = <<GetCoordinates(answer)>>
    /\ UNCHANGED <<svcvars, recvars, xvars, pvars, cvars>>

NextGeocoding == GetCoordinatesCall

SpecGeocoding == Init /\ [][NextGeocoding]_vars

\* ------------- two fetch_weather_for_range invocations on one WeatherService
\* Each invocation i has its own location and window, so that the records of
\* the two can be told apart; the service object holds only the two
\* repositories, which no invocation writes.
MaxConcYears == 1
ConcLocation(i) == IF i = 1 THEN "Testville" ELSE "Atlantis"
ConcStart(i) == DateOrd(2024, i, 1)
ConcOutcomes(start, end) == {Raised, Returned(<<>>), Returned(<<StubRecord(start, 0)>>)}

\* Whose list "all_records" names inside invocation i: a local of the call.
AccShared(i) == 1

AccOwner(i) == i

ConcRun(i) ==
    /\ c_pc[i] = "Idle"
    /\ \E n \in 0..MaxConcYears : c_years' = [c_years EXCEPT ![i] = n]
    /\ c_start' = [c_start EXCEPT ![i] = ConcStart(i)]
    /\ c_pc' = [c_pc EXCEPT ![i] = "ResolvingLocation"]
    /\ UNCHANGED <<c_iter, c_window, c_acc, c_result, c_calls>>
    /\ UNCHANGED <<svcvars, recvars, xvars, pvars, gvars>>

ConcGeocodeReturns(i) ==
    /\ c_pc[i] = "ResolvingLocation"
    /\ c_acc' = [c_acc EXCEPT ![AccOwner(i)] = <<>>]
    /\ c_iter' = [c_iter EXCEPT ![i] = 1]
    /\ c_pc' = [c_pc EXCEPT ![i] = "LoopHead"]
    /\ UNCHANGED <<c_years, c_start, c_window, c_result, c_calls>>
    /\ UNCHANGED <<svcvars, recvars, xvars, pvars, gvars>>

ConcGeocodeRaises(i) ==
    /\ c_pc[i] = "ResolvingLocation"
    /\ c_pc' = [c_pc EXCEPT ![i] = "Failed"]
    /\ UNCHANGED <<c_years, c_start, c_iter, c_window, c_acc, c_result, c_calls>>
    /\ UNCHANGED <<svcvars, recvars, xvars, pvars, gvars>>

ConcBeginOffset(i) ==
    /\ c_pc[i] = "LoopHead"
    /\ c_iter[i] <= Len(RangeOffsets(c_years[i]))
    /\ LET k == RangeOffsets(c_years[i])[c_iter[i]]
           d == c_start[i] - DateOffset(k)
       IN  c_window' = [c_window EXCEPT ![i] = <<d, d>>]
    /\ c_pc' = [c_pc EXCEPT ![i] = "FetchingYear"]
    /\ UNCHANGED <<c_years, c_start, c_iter, c_acc, c_result, c_calls>>
    /\ UNCHANGED <<svcvars, recvars, xvars, pvars, gvars>>

ConcProviderReturns(i) ==
    /\ c_pc[i] = "FetchingYear"
    /\ \E o \in ConcOutcomes(c_window[i][1], c_window[i][2]) :
          /\ ~ o.raised
          /\ c_calls' = [c_calls EXCEPT ![i] = Append(@, o)]
          /\ c_acc' = [c_acc EXCEPT ![AccOwner(i)] = Extend(@, o.records)]
    /\ c_iter' = [c_iter EXCEPT ![i] = @ + 1]
    /\ c_pc' = [c_pc EXCEPT ![i] = "LoopHead"]
    /\ UNCHANGED <<c_years, c_start, c_window, c_result>>
    /\ UNCHANGED <<svcvars, recvars, xvars, pvars, gvars>>

ConcProviderRaises(i) ==
    /\ c_pc[i] = "FetchingYear"
    /\ \E o \in ConcOutcomes(c_window[i][1], c_window[i][2]) :
          /\ o.raised
          /\ c_calls' = [c_calls EXCEPT ![i] = Append(@, o)]
    /\ c_acc' = [c_acc EXCEPT ![AccOwner(i)] = KeepOnFailure(@)]
    /\ c_iter' = [c_iter EXCEPT ![i] = ContinueLoop(@, c_years[i])]
    /\ c_pc' = [c_pc EXCEPT ![i] = "LoopHead"]
    /\ UNCHANGED <<c_years, c_start, c_window, c_result>>
    /\ UNCHANGED <<svcvars, recvars, xvars, pvars, gvars>>

ConcReturn(i) ==
    /\ c_pc[i] = "LoopHead"
    /\ c_iter[i] > Len(RangeOffsets(c_years[i]))
    /\ c_result' = [c_result EXCEPT ![i] = c_acc[AccOwner(i)]]
    /\ c_pc' = [c_pc EXCEPT ![i] = "Done"]
    /\ UNCHANGED <<c_years, c_start, c_iter, c_window, c_acc, c_calls>>
    /\ UNCHANGED <<svcvars, recvars, xvars, pvars, gvars>>

NextConcurrent ==
    \E i \in Invocations :
        \/ ConcRun(i)
        \/ ConcGeocodeReturns(i)
        \/ ConcGeocodeRaises(i)
        \/ ConcBeginOffset(i)
        \/ ConcProviderReturns(i)
        \/ ConcProviderRaises(i)
        \/ ConcReturn(i)

SpecConcurrent == Init /\ [][NextConcurrent]_vars

\* ------------------------------------- ExportService (core/export_service.py)
\* The parent directory of the target is "missing" or "present"; the target
\* file is absent ("none"), whole ("complete") or cut short ("partial").
MaxExports == 3
ExportFormats == {"csv", "excel"}
MkdirErrors == {"PermissionError"}
WriteErrors == {"PermissionError", "OSError"}

\* "except Exception as e: logger.error(...); raise": what reaches the caller.
Reraise(e) == e

\* What a failed write leaves of the target: nothing new, or a partial file.
FilesAfterFailedWrite(file) == {file, "partial"}

ExportCallRecord(format, ops, underlying, raised, dir_after, file_after) ==
    [format |-> format, ops |-> ops, underlying |-> underlying, raised |-> raised,
     dir_before |-> e_dir, file_before |-> e_file,
     dir_after |-> dir_after, file_after |-> file_after]

\* export_to_csv / export_to_excel: mkdir and the write both succeed.
ExportSucceeds ==
    /\ Len(e_calls) < MaxExports
    /\ \E format \in ExportFormats :
          e_calls' = Append(e_calls,
                            ExportCallRecord(format, <<"mkdir", "write">>, "", "",
                                             "present", "complete"))
    /\ e_dir' = "present"
    /\ e_file' = "complete"
    /\ UNCHANGED <<svcvars, recvars, pvars, gvars, cvars, wvars, uvars>>

\* Path(filepath).parent.mkdir(parents=True, exist_ok=True) raises: only when
\* the directory has to be made.
ExportMkdirFails ==
    /\ Len(e_calls) < MaxExports
    /\ e_dir = "missing"
    /\ \E format \in ExportFormats, e \in MkdirErrors :
          e_calls' = Append(e_calls,
                            ExportCallRecord(format, <<"mkdir">>, e, Reraise(e),
                                             e_dir, e_file))
    /\ UNCHANGED <<e_dir, e_file>>
    /\ UNCHANGED <<svcvars, recvars, pvars, gvars, cvars, wvars, uvars>>

\* The variant that removes what the failed write left.
ExportWriteFailsCleansUp ==
    /\ Len(e_calls) < MaxExports
    /\ \E format \in ExportFormats, e \in WriteErrors :
          e_calls' = Append(e_calls,
                            ExportCallRecord(format, <<"mkdir", "write", "unlink">>, e,
                                             Reraise(e), "present", "none"))
    /\ e_dir' = "present"
    /\ e_file' = "none"
    /\ UNCHANGED <<svcvars, recvars, pvars, gvars, cvars, wvars, uvars>>

\* mkdir succeeds, then to_csv / to_excel raises.
ExportWriteFails ==
    /\ Len(e_calls) < MaxExports
    /\ \E format \in ExportFormats, e \in WriteErrors,
          left \in FilesAfterFailedWrite(e_file) :
          /\ e_calls' = Append(e_calls,
                               ExportCallRecord(format, <<"mkdir", "write">>, e,
                                                Reraise(e), "present", left))
          /\ e_file' = left
    /\ e_dir' = "present"
    /\ UNCHANGED <<svcvars, recvars, pvars, gvars, cvars, wvars, uvars>>

NextExport ==
    \/ ExportSucceeds
    \/ ExportMkdirFails
    \/ ExportWriteFails

SpecExport == Init /\ [][NextExport]_vars

\* ------------------ the service over a per-day provider (services.py 25-80)
\* fetch_weather_for_range with OpenWeather, PirateWeather or AccuWeather as
\* its weather_repo: each provider call of the loop is the day-by-day call
\* modelled above, run to its end before the loop goes on.  The window is the
\* two days 2024-01-01 and 2024-01-02, so that a call can fail after it has
\* built a record.
MaxAggYears == 1

\* Entry of the call up to the loop: coordinates resolved, all_records = [].
AggRun ==
    /\ pc = "Idle"
    /\ p_pc = "Idle"
    /\ \E repo \in PerDay, n \in 0..MaxAggYears :
          /\ weather_repo' = repo
          /\ years_past' = n
    /\ location' = "Testville"
    /\ start_date' = DateOrd(2024, 1, 1)
    /\ end_date' = DateOrd(2024, 1, 2)
    /\ latitude' = 10
    /\ longitude' = 20
    /\ all_records' = <<>>
    /\ iter' = 1
    /\ pc' = "LoopHead"
    /\ UNCHANGED <<locals, result, error, geo_calls, provider_calls, signals>>
    /\ UNCHANGED <<recvars, xvars, pvars, gvars, cvars>>

\* self.weather_repo.get_historical_weather(latitude, longitude,
\* current_start, current_end) is entered.
AggCallProvider ==
    /\ pc = "FetchingYear"
    /\ p_pc = "Idle"
    /\ p_impl' = weather_repo
    /\ p_start' = current_start
    /\ p_end' = current_end
    /\ p_current' = current_start
    /\ p_records' = <<>>
    /\ p_requests' = <<>>
    /\ p_error' = NoError
    /\ p_result' = <<>>
    /\ p_pc' = IF weather_repo = "AccuWeather" THEN "Lookup" ELSE "Loop"
    /\ UNCHANGED <<svcvars, recvars, xvars, gvars, cvars>>

\* One provider call as the service saw it end; partial is the list the
\* provider had built when it ended.
LogAggCall(raised, records, partial) ==
    [offset |-> year_offset, start |-> current_start, end |-> current_end,
     raised |-> raised, records |-> records, partial |-> partial]

\* The accumulator after a provider call that raised; the variant takes over
\* what the provider had built.
KeepPartial(acc, partial) == acc \o partial

DropPartial(acc, partial) == KeepOnFailure(acc)

\* The call returned: all_records.extend(period_records).
AggProviderReturned ==
    /\ pc = "FetchingYear"
    /\ p_pc = "Returned"
    /\ provider_calls' = Append(provider_calls, LogAggCall(FALSE, p_result, p_records))
    /\ all_records' = Extend(all_records, p_result)
    /\ iter' = iter + 1
    /\ pc' = "LoopHead"
    /\ p_pc' = "Idle"
    /\ UNCHANGED <<args, latitude, longitude, locals, result, error, geo_calls, signals>>
    /\ UNCHANGED <<p_impl, p_start, p_end, p_current, p_records, p_requests, p_error, p_result>>
    /\ UNCHANGED <<recvars, xvars, gvars, cvars>>

\* The call raised: except Exception -> log, continue.
AggProviderRaised ==
    /\ pc = "FetchingYear"
    /\ p_pc = "Raised"
    /\ provider_calls' = Append(provider_calls, LogAggCall(TRUE, <<>>, p_records))
    /\ all_records' = DropPartial(all_records, p_records)
    /\ iter' = ContinueLoop(iter, years_past)
    /\ pc' = "LoopHead"
    /\ p_pc' = "Idle"
    /\ UNCHANGED <<args, latitude, longitude, locals, result, error, geo_calls, signals>>
    /\ UNCHANGED <<p_impl, p_start, p_end, p_current, p_records, p_requests, p_error, p_result>>
    /\ UNCHANGED <<recvars, xvars, gvars, cvars>>

NextAggregate ==
    \/ AggRun
    \/ BeginOffset
    \/ AggCallProvider
    \/ LookupReturnsKey
    \/ LookupReturnsEmptyKey
    \/ LookupTransportFails
    \/ DayTransportFails
    \/ DayMalformed
    \/ DayNoData
    \/ DayData
    \/ DayLoopEnds
    \/ AggProviderReturned
    \/ AggProviderRaised
    \/ Return

SpecAggregate == Init /\ [][NextAggregate]_vars

\* ------------------ the date window the main window submits (main_window.py)
\* The preset combo, the two date edits and the years spin box, and the
\* sub-windows fetch_weather_for_range derives from what a click on the fetch
\* button hands to the worker.  The spin box runs from 1 to 20; the model
\* stops at MaxSpinYears.
MaxSpinYears == 3
Todays == {DateOrd(2023, 6, 30), DateOrd(2024, 2, 29), DateOrd(2024, 3, 1),
           DateOrd(2025, 1, 15)}
Presets == {"Custom", "7 Days", "14 Days", "30 Days", "3 Months", "6 Months", "12 Months"}

\* QDate.addMonths(-n): the same day n months earlier, or the last day of
\* that month when it has no such day.
AddMonthsBack(d, n) ==
    LET total == YearOf(d) * 12 + (MonthOf(d) - 1) - n
        y == total \div 12
        m == (total % 12) + 1
        last == DaysInMonth(y, m)
    IN  DateOrd(y, m, IF DayOf(d) > last THEN last ELSE DayOf(d))

\* The start date _on_preset_changed sets for a preset other than Custom.
PresetStart(text, today) ==
    CASE text = "7 Days" -> today - 7
      [] text = "14 Days" -> today - 14
      [] text = "30 Days" -> today - 30
      [] text = "3 Months" -> AddMonthsBack(today, 3)
      [] text = "6 Months" -> AddMonthsBack(today, 6)
      [] text = "12 Months" -> AddMonthsBack(today, 12)

\* The dates the user puts into an enabled date edit.
EditDates(today) == {today - 366, today - 365, today - 364, today - 1, today, today + 1}

\* MainWindow.__init__: the edits and the spin box get their defaults, then
\* the "7 Days" preset is applied.
WindowShown ==
    /\ w_today = 0
    /\ \E today \in Todays :
          /\ w_today' = today
          /\ w_start' = PresetStart("7 Days", today)
          /\ w_end' = today
    /\ w_preset' = "7 Days"
    /\ w_years' = 3
    /\ UNCHANGED w_fetch
    /\ UNCHANGED <<svcvars, recvars, pvars, gvars, cvars, evars, uvars>>

PresetChanged ==
    /\ w_today # 0
    /\ \E text \in Presets :
          /\ w_preset' = text
          /\ w_end' = w_today
          /\ w_start' = IF text = "Custom" THEN w_start ELSE PresetStart(text, w_today)
    /\ UNCHANGED <<w_today, w_years, w_fetch>>
    /\ UNCHANGED <<svcvars, recvars, pvars, gvars, cvars, evars, uvars>>

\* The date edits take input only while the preset is Custom.
DateEdited ==
    /\ w_today # 0
    /\ w_preset = "Custom"
    /\ \E s \in EditDates(w_today), e \in EditDates(w_today) :
          /\ w_start' = s
          /\ w_end' = e
    /\ UNCHANGED <<w_today, w_preset, w_years, w_fetch>>
    /\ UNCHANGED <<svcvars, recvars, pvars, gvars, cvars, evars, uvars>>

YearsChanged ==
    /\ w_today # 0
    /\ \E v \in 1..MaxSpinYears : w_years' = v
    /\ UNCHANGED <<w_today, w_preset, w_start, w_end, w_fetch>>
    /\ UNCHANGED <<svcvars, recvars, pvars, gvars, cvars, evars, uvars>>

\* The sub-windows of fetch_weather_for_range(location, start, end, years).
SubWindows(start, end, years) ==
    [i \in 1..Len(RangeOffsets(years)) |->
        [offset |-> RangeOffsets(years)[i],
         start |-> start - DateOffset(RangeOffsets(years)[i]),
         end |-> end - DateOffset(RangeOffsets(years)[i])]]

\* A click on the fetch button: the two date checks, then the worker gets
\* the window and the years; a rejected click submits nothing.
WindowSubmitted ==
    /\ w_today # 0
    /\ w_fetch' = IF w_end > w_today \/ w_start > w_end
                  THEN <<>>
                  ELSE SubWindows(w_start, w_end, w_years)
    /\ UNCHANGED <<w_today, w_preset, w_start, w_end, w_years>>
    /\ UNCHANGED <<svcvars, recvars, pvars, gvars, cvars, evars, uvars>>

NextWindows ==
    \/ WindowShown
    \/ PresetChanged
    \/ DateEdited
    \/ YearsChanged
    \/ WindowSubmitted

SpecWindows == Init /\ [][NextWindows]_vars

\* --------------- the fetch button and its worker thread (main_window.py)
\* u_worker is self.worker_thread (0 is None, else the number of the
\* worker), u_running the workers whose run() is executing (isRunning()),
\* u_queue the signals queued from worker threads to the main thread, which
\* handles them one at a time in the order they were emitted.  u_emitted logs
\* the terminal signals as emitted, u_finished the signals as handled, each
\* with the worker referenced, and whether that worker was running, when the
\* handler began.  The progress signals only set the status text and are left
\* out.
MaxFetches == 3
ExportButtons == {"csv", "excel", "jpeg"}
WorkerOutcomes ==
    {[signal |-> "fetch_completed", records |-> "some"],
     [signal |-> "fetch_completed", records |-> "empty"],
     [signal |-> "fetch_error", records |-> "empty"]}

UIEvent(signal, w, records) == [signal |-> signal, worker |-> w, records |-> records]

Handled(event) ==
    Append(u_finished, [signal |-> event.signal, worker |-> event.worker,
                        records |-> event.records, referenced |-> u_worker,
                        referenced_running |-> u_worker \in u_running])

\* _on_fetch_data_clicked without "self.fetch_button.setEnabled(False)".
FetchClickedButtonStaysEnabled ==
    /\ u_fetch_button
    /\ u_started < MaxFetches
    /\ \E input \in {"empty location", "bad dates", "ok"} :
          IF input = "empty location"
          THEN /\ u_status' = "Error: Location cannot be empty."
               /\ UNCHANGED <<u_worker, u_running, u_fetch_button, u_started>>
          ELSE IF u_worker # 0 /\ u_worker \in u_running
          THEN /\ u_status' = "A data fetch is already in progress..."
               /\ UNCHANGED <<u_worker, u_running, u_fetch_button, u_started>>
          ELSE IF input = "bad dates"
          THEN /\ u_status' = "date rejected"
               /\ UNCHANGED <<u_worker, u_running, u_fetch_button, u_started>>
          ELSE /\ UNCHANGED u_fetch_button
               /\ u_status' = "Initiating data fetch"
               /\ u_started' = u_started + 1
               /\ u_worker' = u_started + 1
               /\ u_running' = u_running \cup {u_started + 1}
    /\ UNCHANGED <<u_queue, u_export, u_data_df, u_emitted, u_finished>>
    /\ UNCHANGED <<svcvars, recvars, pvars, gvars, cvars, evars, wvars>>

\* _on_fetch_data_clicked, the slot of fetch_button.clicked alone: a disabled
\* button emits no clicked.
FetchClicked ==
    /\ u_fetch_button
    /\ u_started < MaxFetches
    /\ \E input \in {"empty location", "bad dates", "ok"} :
          IF input = "empty location"
          THEN /\ u_status' = "Error: Location cannot be empty."
               /\ UNCHANGED <<u_worker, u_running, u_fetch_button, u_started>>
          ELSE IF u_worker # 0 /\ u_worker \in u_running
          THEN /\ u_status' = "A data fetch is already in progress..."
               /\ UNCHANGED <<u_worker, u_running, u_fetch_button, u_started>>
          ELSE IF input = "bad dates"
          THEN /\ u_status' = "date rejected"
               /\ UNCHANGED <<u_worker, u_running, u_fetch_button, u_started>>
          ELSE /\ u_fetch_button' = FALSE
               /\ u_status' = "Initiating data fetch"
               /\ u_started' = u_started + 1
               /\ u_worker' = u_started + 1
               /\ u_running' = u_running \cup {u_started + 1}
    /\ UNCHANGED <<u_queue, u_export, u_data_df, u_emitted, u_finished>>
    /\ UNCHANGED <<svcvars, recvars, pvars, gvars, cvars, evars, wvars>>

HasEmitted(w) == \E k \in 1..Len(u_emitted) : u_emitted[k].worker = w

\* WeatherDataWorker.run with fetch_completed.emit(records) followed by
\* fetch_error.emit as well.
WorkerEmitsBoth(w) ==
    /\ w \in u_running
    /\ ~HasEmitted(w)
    /\ \E o \in WorkerOutcomes :
          /\ u_queue' = u_queue \o <<UIEvent(o.signal, w, o.records),
                                     UIEvent("fetch_error", w, "empty")>>
          /\ u_emitted' = u_emitted \o <<UIEvent(o.signal, w, o.records),
                                         UIEvent("fetch_error", w, "empty")>>
    /\ UNCHANGED <<u_worker, u_running, u_fetch_button, u_export, u_data_df, u_status,
                   u_started, u_finished>>
    /\ UNCHANGED <<svcvars, recvars, pvars, gvars, cvars, evars, wvars>>

\* WeatherDataWorker.run: the call returned and fetch_completed is emitted,
\* or it raised and fetch_error is emitted.
WorkerEmits(w) ==
    /\ w \in u_running
    /\ ~HasEmitted(w)
    /\ \E o \in WorkerOutcomes :
          /\ u_queue' = Append(u_queue, UIEvent(o.signal, w, o.records))
          /\ u_emitted' = Append(u_emitted, UIEvent(o.signal, w, o.records))
    /\ UNCHANGED <<u_worker, u_running, u_fetch_button, u_export, u_data_df, u_status,
                   u_started, u_finished>>
    /\ UNCHANGED <<svcvars, recvars, pvars, gvars, cvars, evars, wvars>>

\* run() returns: the thread is no longer running and emits finished.
WorkerReturns(w) ==
    /\ w \in u_running
    /\ HasEmitted(w)
    /\ u_running' = u_running \ {w}
    /\ u_queue' = Append(u_queue, UIEvent("finished", w, "empty"))
    /\ UNCHANGED <<u_worker, u_fetch_button, u_export, u_data_df, u_status, u_started,
                   u_emitted, u_finished>>
    /\ UNCHANGED <<svcvars, recvars, pvars, gvars, cvars, evars, wvars>>

\* _populate_data_grid: None for no records, else the frame.
PopulateDataGrid(records) == IF records = "empty" THEN "None" ELSE "frame"

\* _on_worker_completed; plotting may raise inside its try.
OnWorkerCompleted ==
    /\ u_queue # <<>>
    /\ Head(u_queue).signal = "fetch_completed"
    /\ u_data_df' = PopulateDataGrid(Head(u_queue).records)
    /\ IF PopulateDataGrid(Head(u_queue).records) # "None"
       THEN \E plot \in {"drawn", "raises"} :
               IF plot = "drawn"
               THEN /\ u_export' = u_export \cup {"csv", "excel", "jpeg"}
                    /\ u_status' = "Successfully loaded"
               ELSE /\ u_export' = u_export \ {"csv", "excel"}
                    /\ u_status' = "Error processing data"
       ELSE /\ u_export' = u_export \ {"csv", "excel"}
            /\ u_status' = "No data found for the selected criteria."
    /\ u_finished' = Handled(Head(u_queue))
    /\ u_queue' = Tail(u_queue)
    /\ UNCHANGED <<u_worker, u_running, u_fetch_button, u_started, u_emitted>>
    /\ UNCHANGED <<svcvars, recvars, pvars, gvars, cvars, evars, wvars>>

\* _on_worker_error
OnWorkerError ==
    /\ u_queue # <<>>
    /\ Head(u_queue).signal = "fetch_error"
    /\ u_status' = "fetch error"
    /\ u_export' = u_export \ {"csv", "excel", "jpeg"}
    /\ u_finished' = Handled(Head(u_queue))
    /\ u_queue' = Tail(u_queue)
    /\ UNCHANGED <<u_worker, u_running, u_fetch_button, u_data_df, u_started, u_emitted>>
    /\ UNCHANGED <<svcvars, recvars, pvars, gvars, cvars, evars, wvars>>

\* _cleanup_worker, the slot of the worker's finished.
CleanupWorker ==
    /\ u_queue # <<>>
    /\ Head(u_queue).signal = "finished"
    /\ u_worker' = 0
    /\ u_fetch_button' = TRUE
    /\ u_status' = "Ready"
    /\ u_finished' = Handled(Head(u_queue))
    /\ u_queue' = Tail(u_queue)
    /\ UNCHANGED <<u_running, u_export, u_data_df, u_started, u_emitted>>
    /\ UNCHANGED <<svcvars, recvars, pvars, gvars, cvars, evars, wvars>>

NextUI ==
    \/ FetchClicked
    \/ \E w \in 1..MaxFetches : WorkerEmits(w)
    \/ \E w \in 1..MaxFetches : WorkerReturns(w)
    \/ OnWorkerCompleted
    \/ OnWorkerError
    \/ CleanupWorker

SpecUI == Init /\ [][NextUI]_vars

\* A started thread runs to the end of run(), and the main thread's event
\* loop delivers every queued signal; clicks are the user's choice.
FairSpecUI ==
    /\ SpecUI
    /\ WF_vars(\E w \in 1..MaxFetches : WorkerEmits(w) \/ WorkerReturns(w))
    /\ WF_vars(OnWorkerCompleted \/ OnWorkerError \/ CleanupWorker)

\* ================================================================ claims

\* What the logs say, read independently of the accumulator.
Returned_ == pc \in {"Done", "Finished"} /\ error = ""
GeocodeOk == Len(geo_calls) >= 1 /\ ~ geo_calls[1].raised
GeocodeFailed == \E i \in 1..Len(geo_calls) : geo_calls[i].raised
CallsOfOffset(k) == {i \in 1..Len(provider_calls) : provider_calls[i].offset = k}
FailedOffsets == {k \in 0..years_past : \E i \in CallsOfOffset(k) : provider_calls[i].raised}

\* The records the provider returned for offset k (empty for a failed one).
RecordsOfOffset(k) ==
    IF k \in FailedOffsets \/ CallsOfOffset(k) = {} THEN <<>>
    ELSE provider_calls[CHOOSE i \in CallsOfOffset(k) : TRUE].records

RECURSIVE ConcatFromOffset(_)
ConcatFromOffset(k) ==
    IF k > years_past THEN <<>> ELSE RecordsOfOffset(k) \o ConcatFromOffset(k + 1)

\* C1: partial-failure isolation.  When the call returns, every offset 0..N
\* has had its provider call, and the result is exactly the records of the
\* offsets that did not raise, in ascending offset order: a failed offset
\* takes away no record of an earlier or later offset.
C1_PartialFailureIsolation ==
    Returned_ =>
        /\ \A k \in 0..years_past : CallsOfOffset(k) # {}
        /\ result = ConcatFromOffset(0)

\* C1 witness: the middle offset of three raised, its neighbours returned
\* records, and all of those are in the result.
C1_Witness ==
    /\ Returned_
    /\ years_past = 2
    /\ FailedOffsets = {1}
    /\ RecordsOfOffset(0) # <<>>
    /\ RecordsOfOffset(2) # <<>>
    /\ Len(result) = Len(RecordsOfOffset(0)) + Len(RecordsOfOffset(2))

\* C2: once the geocoding resolver has raised, the call has failed with the
\* location error (ValueError), no record is returned and the provider is
\* never called.
C2_GeocodingFailureIsFatal ==
    GeocodeFailed =>
        /\ pc \in {"Failed", "Finished"}
        /\ error = "ValueError"
        /\ result = <<>>
        /\ all_records = <<>>
        /\ provider_calls = <<>>

\* C2 witness: the resolver raised and the call has failed.
C2_Witness == GeocodeFailed /\ pc = "Failed" /\ error = "ValueError"

RECURSIVE RecordsBefore(_)
RecordsBefore(i) ==
    IF i <= 1 THEN 0
    ELSE RecordsBefore(i - 1) + Len(provider_calls[i - 1].records)

\* C4: the result holds, position by position, the record lists of the
\* successful calls one after the other in call (ascending offset) order:
\* the p-th record of call i sits at position RecordsBefore(i) + p, and the
\* result has no other element.
C4_ConcatenationInOffsetOrder ==
    Returned_ =>
        /\ Len(result) = RecordsBefore(Len(provider_calls) + 1)
        /\ \A i \in 1..Len(provider_calls) :
              \A p \in 1..Len(provider_calls[i].records) :
                  result[RecordsBefore(i) + p] = provider_calls[i].records[p]
        /\ \A i \in 1..(Len(provider_calls) - 1) :
              provider_calls[i].offset < provider_calls[i + 1].offset

\* C4 witness: two successful calls, the first returning two records in
\* descending date order, and the result keeps that order.
C4_Witness ==
    /\ Returned_
    /\ Len(provider_calls) >= 2
    /\ Len(provider_calls[1].records) = 2
    /\ provider_calls[1].records[1].record_date > provider_calls[1].records[2].record_date
    /\ provider_calls[2].records # <<>>
    /\ result[1].record_date > result[2].record_date

\* Every sub-window of the call is a date the date type can hold.
WindowsRepresentable ==
    /\ DateInRange(start_date - DaysPerYearOffset * years_past)
    /\ DateInRange(end_date - DaysPerYearOffset * years_past)

\* C5 as stated: once coordinates are resolved no error leaves the call.
C5_Original == GeocodeOk => error = ""

\* C5 amended: once coordinates are resolved and every shifted window is a
\* representable date, no error leaves the call and the call returns (Done).
C5_ReturnsOnceResolved ==
    /\ []((GeocodeOk /\ WindowsRepresentable) => error = "")
    /\ ((GeocodeOk /\ WindowsRepresentable) ~> Returned_)

\* C5 witness: a returned call in which every provider call raised.
C5_Witness ==
    /\ pc = "Done"
    /\ GeocodeOk
    /\ years_past = 2
    /\ FailedOffsets = {0, 1, 2}

\* C6: with coordinates resolved and every offset's call failed or empty,
\* the call returns the empty list without error and the worker reports it
\* with fetch_completed([]); a resolver failure is reported with fetch_error.
AllOffsetsEmpty ==
    /\ GeocodeOk
    /\ Len(provider_calls) = years_past + 1
    /\ \A i \in 1..Len(provider_calls) : provider_calls[i].records = <<>>

C6_EmptyIsSuccess ==
    /\ (AllOffsetsEmpty /\ pc \in {"LoopHead", "Done", "Finished"}) => error = ""
    /\ (AllOffsetsEmpty /\ pc \in {"Done", "Finished"}) => result = <<>>
    /\ (AllOffsetsEmpty /\ pc = "Finished") =>
          signals = << [signal |-> "fetch_completed", records |-> <<>>] >>
    /\ (GeocodeFailed /\ pc = "Finished") =>
          signals = << [signal |-> "fetch_error", records |-> <<>>] >>

\* C6 witness: the worker has reported an all-failed, all-empty fetch.
C6_Witness ==
    /\ AllOffsetsEmpty
    /\ pc = "Finished"
    /\ years_past >= 1
    /\ FailedOffsets # {}
    /\ FailedOffsets # 0..years_past

\* C7: the resolver is called at most once, and before any provider call;
\* every provider call receives the pair the resolver returned; a returned
\* call has called it exactly once.
C7_CoordinatesResolvedOnce ==
    /\ Len(geo_calls) <= 1
    /\ provider_calls # <<>> => GeocodeOk
    /\ \A i \in 1..Len(provider_calls) :
          /\ provider_calls[i].latitude = geo_calls[1].latitude
          /\ provider_calls[i].longitude = geo_calls[1].longitude
    /\ Returned_ => Len(geo_calls) = 1

\* C7 witness: three provider calls made with the resolved pair.
C7_Witness ==
    /\ Len(provider_calls) = 3
    /\ Len(geo_calls) = 1
    /\ provider_calls[3].latitude = -33
    /\ provider_calls[3].longitude = 151

\* C8: with years_past = 0 a returned call has made exactly one provider
\* call, for the window (start_date, end_date) itself; with the one-record-
\* per-day provider the result's dates are exactly the days of that window.
C8_ZeroYearsIsTheWindow ==
    (Returned_ /\ years_past = 0) =>
        /\ Len(provider_calls) = 1
        /\ provider_calls[1].start = start_date
        /\ provider_calls[1].end = end_date
        /\ weather_repo = "Mock" =>
              /\ Len(result) = (IF end_date >= start_date THEN end_date - start_date + 1 ELSE 0)
              /\ \A i \in 1..Len(result) : result[i].record_date = start_date + i - 1

\* C8 witness: a three-day window fetched from the mock with years_past = 0.
C8_Witness ==
    /\ Returned_
    /\ years_past = 0
    /\ weather_repo = "Mock"
    /\ Len(result) = 3
    /\ result[3].record_date = end_date

\* C9: a construction raises exactly when max_temp_c < min_temp_c, whatever
\* the other fields; when it raises there is no record, otherwise the record
\* carries the six arguments.
C9_RecordValidation ==
    rec_args # <<>> =>
        /\ rec_args[4] < rec_args[5] => (rec_raised /\ rec_out = <<>>)
        /\ rec_args[4] >= rec_args[5] =>
              /\ ~ rec_raised
              /\ Len(rec_out) = 1
              /\ rec_out[1].max_temp_c = rec_args[4]
              /\ rec_out[1].min_temp_c = rec_args[5]
              /\ rec_out[1].record_date = rec_args[1]
              /\ rec_out[1].precipitation_mm = rec_args[6]

\* C9 witness: a construction with equal temperatures that yielded a record.
C9_Witness ==
    /\ rec_args # <<>>
    /\ rec_args[4] = rec_args[5]
    /\ Len(rec_out) = 1

\* C10: the worked scenario.  Testville at (10, 20), 2024-01-01..2024-01-03,
\* years_back = 1, the scenario provider: no error leaves the call; when it
\* returns it has requested exactly the windows 2024-01-01..03 and
\* 2023-01-01..03 and the result is the three 2024 records in date order.
InScenario ==
    /\ weather_repo = "Scenario"
    /\ location = "Testville"
    /\ start_date = DateOrd(2024, 1, 1)
    /\ end_date = DateOrd(2024, 1, 3)
    /\ years_past = 1
    /\ GeocodeOk
    /\ latitude = 10
    /\ longitude = 20

C10_Scenario ==
    InScenario =>
        /\ error = ""
        /\ pc \in {"Done", "Finished"} =>
              /\ Len(provider_calls) = 2
              /\ provider_calls[1].start = DateOrd(2024, 1, 1)
              /\ provider_calls[1].end = DateOrd(2024, 1, 3)
              /\ provider_calls[2].start = DateOrd(2023, 1, 1)
              /\ provider_calls[2].end = DateOrd(2023, 1, 3)
              /\ provider_calls[2].raised
              /\ Len(result) = 3
              /\ \A i \in 1..3 :
                    /\ result[i].record_date = DateOrd(2024, 1, i)
                    /\ result[i].year = 2024
                    /\ result[i].max_temp_c = 19 + i

\* C10 witness: the scenario has run to its return.
C10_Witness == InScenario /\ pc = "Done" /\ Len(result) = 3

\* ------------------------------------------------- claims on the providers
ProviderDone == p_pc \in {"Returned", "Raised"}
DayRequests == SelectSeq(p_requests, LAMBDA r : r.kind = "day")
DataRequests == SelectSeq(p_requests, LAMBDA r : r.kind = "day" /\ r.outcome = "data")
RangeAnswer == p_requests[1].answer
RowsValidWithoutNull(answer) ==
    \A i \in 1..answer.n :
        (answer.tmax[i] # Null /\ answer.tmin[i] # Null) => answer.tmax[i] >= answer.tmin[i]

\* C11: the range-query provider, given n dates and three arrays of length n,
\* returns exactly n records, the i-th built from the i-th entries with every
\* null replaced by 0; a null never makes the call fail.  (Rows whose two
\* temperatures are both present are taken to be ordered, so that only a null
\* can be what fails the call.)
C11_NullBecomesZero ==
    (/\ p_impl = "OpenMeteo"
     /\ ProviderDone
     /\ RangeAnswer.kind = "daily"
     /\ RangeAnswer.short = ""
     /\ RowsValidWithoutNull(RangeAnswer))
    => /\ p_pc = "Returned"
       /\ Len(p_result) = RangeAnswer.n
       /\ \A i \in 1..RangeAnswer.n :
             p_result[i] = RangeRecord(p_start + i - 1,
                                       NullDefault(RangeAnswer.tmax[i]),
                                       NullDefault(RangeAnswer.tmin[i]),
                                       NullDefault(RangeAnswer.precip[i]))

\* C12: a per-day provider never raises because a day had no data; after such
\* a day it goes on to the next day of the window; and the returned list has
\* one record for each day that did return data, in request order.
C12_NoDataDayIsSkipped ==
    p_impl \in PerDay =>
        /\ p_pc = "Raised" => p_requests[Len(p_requests)].outcome # "nodata"
        /\ \A i \in 1..Len(DayRequests) :
              (DayRequests[i].outcome = "nodata" /\ DayRequests[i].date < p_end)
              => \/ i = Len(DayRequests) /\ p_pc = "Loop"
                                         /\ p_current = DayRequests[i].date + 1
                 \/ i < Len(DayRequests) /\ DayRequests[i + 1].date = DayRequests[i].date + 1
        /\ p_pc = "Returned" =>
              /\ Len(p_result) = Len(DataRequests)
              /\ \A k \in 1..Len(p_result) :
                    p_result[k].record_date =
                        RecordDate(DataRequests[k].date, DataRequests[k].returned)

\* C12 witness: a returned call whose middle day had no data and whose first
\* and last day each gave a record.
C12_Witness ==
    /\ p_impl \in PerDay
    /\ p_pc = "Returned"
    /\ Len(DayRequests) = 3
    /\ DayRequests[1].outcome = "data"
    /\ DayRequests[2].outcome = "nodata"
    /\ DayRequests[3].outcome = "data"
    /\ Len(p_result) = 2

\* C13: the day requests of a per-day provider are for the days start,
\* start + 1, ... in this order, each day once and none after end; a call
\* that returns has requested every day of the window, and none when
\* start > end, returning the empty list; and the day loop always ends.
DayLoopInv ==
    p_impl \in PerDay =>
        /\ \A i \in 1..Len(DayRequests) :
              DayRequests[i].date = p_start + i - 1 /\ DayRequests[i].date <= p_end
        /\ p_pc = "Returned" =>
              Len(DayRequests) = (IF p_start > p_end THEN 0 ELSE p_end - p_start + 1)
        /\ (p_pc = "Returned" /\ p_start > p_end) => p_result = <<>>

C13_OneRequestPerDay ==
    /\ [](DayLoopInv)
    /\ (p_pc = "Loop") ~> ProviderDone

\* C13 witness: a returned call over three days, the first and the last of
\* which had no data.
C13_Witness ==
    /\ p_impl \in PerDay
    /\ p_pc = "Returned"
    /\ Len(DayRequests) = 3
    /\ DayRequests[1].outcome = "nodata"
    /\ DayRequests[2].outcome = "data"
    /\ DayRequests[3].outcome = "nodata"

\* C14: once any request of a provider call has failed in transport, the call
\* has raised: it holds an exception and has returned no list.
C14_TransportFailurePropagates ==
    (\E i \in 1..Len(p_requests) : p_requests[i].outcome = "transport")
    => /\ p_pc = "Raised"
       /\ p_error # NoError
       /\ p_result = <<>>

\* C14 witness: the transport failed on a later day, after a record had been
\* built for an earlier day, and the call raised.
C14_Witness ==
    /\ p_pc = "Raised"
    /\ p_records # <<>>
    /\ p_requests[Len(p_requests)].kind = "day"
    /\ p_requests[Len(p_requests)].outcome = "transport"

\* C15 as stated: a transport failure reaches the caller as another kind
\* (exception class) than the unusable-payload failures do.
PayloadErrorTypes == {NoDailyError.type, ParseError.type}
LastRequest == p_requests[Len(p_requests)]
PayloadFailed(r) ==
    \/ r.outcome \in {"nodaily", "malformed"}
    \/ r.kind = "range" /\ r.outcome = "daily" /\ r.answer.short # ""
C17_ReturnedDateIsTrusted ==
    p_impl = "PirateWeather" =>
        \A k \in 1..Len(p_records) :
            LET q == DataRequests[k]
                rec == p_records[k]
            IN  /\ q.returned # q.date =>
                      /\ rec.record_date = q.returned
                      /\ rec.year = YearOf(q.returned)
                      /\ rec.record_date # q.date
                /\ q.returned = q.date => rec.record_date = q.date

\* C17 witness: the answer for 2024-01-01 carried 2023-12-31 and the record has
\* year 2023; a later answer agreed with its request.
C17_Witness ==
    /\ p_impl = "PirateWeather"
    /\ p_pc = "Returned"
    /\ Len(p_result) >= 2
    /\ DataRequests[1].date = DateOrd(2024, 1, 1)
    /\ p_result[1].year = 2023
    /\ p_result[2].record_date = DataRequests[2].date

\* C18 as stated: every record of every provider, the mock included, has the
\* empty location.
C18_Original ==
    \A k \in 1..Len(p_result) : p_result[k].location = ""

\* C18: every record of the range-query and per-day providers has the empty
\* location; every record of the mock has "Mock Location".
C18_LocationByProvider ==
    \A k \in 1..Len(p_records) :
        p_records[k].location = (IF p_impl = "Mock" THEN "Mock Location" ELSE "")

\* C18 witness: the mock returned a record for each day of a window, each
\* with its own location text.
C18_Witness ==
    /\ p_impl = "Mock"
    /\ p_pc = "Returned"
    /\ Len(p_result) = MaxDaySpan + 1
    /\ p_result[1].location = "Mock Location"

\* C20: every record held anywhere has max_temp_c >= min_temp_c, and no step
\* changes a record once it is in a provider's list or in a returned list.
RecordLists == {p_records, p_result, all_records, result, rec_out}
RecordsOrdered ==
    \A l \in RecordLists : \A k \in 1..Len(l) : l[k].max_temp_c >= l[k].min_temp_c
RecordsKept ==
    /\ \A k \in 1..Len(p_records) : k <= Len(p_records') /\ p_records'[k] = p_records[k]
    /\ p_pc = "Returned" => p_result' = p_result
GeoCalled == g_outcome # <<>>
GeoAnswer == g_response[1].answer
GeoOutcome == g_outcome[1]
GeoCause ==
    IF GeoAnswer.kind = "transport" THEN "transport"
    ELSE IF DOMAIN GeoAnswer.results = {} THEN "nomatch"
    ELSE IF GeoAnswer.results[1].latitude = Absent \/ GeoAnswer.results[1].longitude = Absent
         THEN "malformed"
    ELSE "found"

\* C16 as stated: zero matches, a transport failure and a first result without
\* latitude or longitude each fail as a kind (exception class) of their own.
C16_Original ==
    GeoCalled =>
        /\ GeoCause = "nomatch" =>
              GeoOutcome.error.type \notin {GeoNetworkError.type, GeoParseError.type}
        /\ GeoCause = "transport" =>
              GeoOutcome.error.type \notin {GeoNotFoundError.type, GeoParseError.type}
        /\ GeoCause = "malformed" =>
              GeoOutcome.error.type \notin {GeoNotFoundError.type, GeoNetworkError.type}

\* C16: get_coordinates returns the latitude and longitude of the first result
\* exactly when the results list is non-empty and its first element has both;
\* otherwise it returns no coordinates and raises a ValueError whose message
\* alone tells zero matches, transport failure and missing field apart.
C16_FirstResultOrValueError ==
    GeoCalled =>
        /\ GeoOutcome.raised <=> GeoCause # "found"
        /\ GeoCause = "found" =>
              GeoOutcome.coordinates =
                  <<GeoAnswer.results[1].latitude, GeoAnswer.results[1].longitude>>
        /\ GeoOutcome.raised =>
              /\ GeoOutcome.coordinates = <<>>
              /\ GeoOutcome.error.type = "ValueError"
              /\ GeoCause = "nomatch" => GeoOutcome.error = GeoNotFoundError
              /\ GeoCause = "transport" => GeoOutcome.error = GeoNetworkError
              /\ GeoCause = "malformed" => GeoOutcome.error = GeoParseError
        /\ Cardinality({GeoNotFoundError.message, GeoNetworkError.message,
                        GeoParseError.message}) = 3

\* C16 witness: two results with different coordinates, and the call returned
\* those of the first.
C16_Witness ==
    /\ GeoCalled
    /\ GeoAnswer.kind = "json"
    /\ Cardinality(DOMAIN GeoAnswer.results) = 2
    /\ GeoAnswer.results[1].latitude = 10
    /\ GeoAnswer.results[2].latitude = -33
    /\ GeoAnswer.results[2].longitude = 151
    /\ GeoOutcome.coordinates = <<10, 20>>

\* ------------------------------------------- claims on concurrent invocations
RECURSIVE ConcAlone(_, _)
ConcAlone(calls, k) ==
    IF k > Len(calls) THEN <<>> ELSE calls[k].records \o ConcAlone(calls, k + 1)

ConcWindowDates(i) == {c_start[i] - DateOffset(k) : k \in 0..c_years[i]}

\* C19: whatever the interleaving, an invocation that returns has made one
\* provider call per offset and returns the records of its own calls that did
\* not raise, in order -- what it returns when run alone with these answers;
\* every record of its result is of one of its own windows.
C19_InvocationsAreIsolated ==
    \A i \in Invocations :
        c_pc[i] = "Done" =>
            /\ Len(c_calls[i]) = c_years[i] + 1
            /\ c_result[i] = ConcAlone(c_calls[i], 1)
            /\ \A k \in 1..Len(c_result[i]) :
                  c_result[i][k].record_date \in ConcWindowDates(i)

\* C19 witness: both invocations made two provider calls each and both
\* returned the two records of their own calls.
C19_Witness ==
    /\ c_pc[1] = "Done"
    /\ c_pc[2] = "Done"
    /\ Len(c_result[1]) = 2
    /\ Len(c_result[2]) = 2

\* ------------------------------------------------------ claims on the export
\* C21: every export call makes the parent directory first and only then
\* writes; when either step fails the caller gets that step's own error, and
\* the call removes nothing: the directory made stays, and the target file is
\* left as the failed write left it.
C21_ExportSurfacesError ==
    \A i \in 1..Len(e_calls) :
        LET c == e_calls[i] IN
        /\ c.ops[1] = "mkdir"
        /\ \A j \in 1..Len(c.ops) : c.ops[j] \in {"mkdir", "write"}
        /\ (\E j \in 1..Len(c.ops) : c.ops[j] = "write") =>
              c.ops = <<"mkdir", "write">> /\ c.dir_after = "present"
        /\ c.raised = c.underlying
        /\ c.underlying # "" =>
              /\ c.file_after \in FilesAfterFailedWrite(c.file_before)
              /\ c.dir_before = "present" => c.dir_after = "present"
        /\ c.underlying = "" => c.file_after = "complete"

\* C21 witness: the directory was missing, the first export made it and then
\* failed in the write, leaving a partial file and raising the write's error.
C21_Witness ==
    /\ Len(e_calls) >= 1
    /\ e_calls[1].dir_before = "missing"
    /\ e_calls[1].ops = <<"mkdir", "write">>
    /\ e_calls[1].raised = "OSError"
    /\ e_calls[1].dir_after = "present"
    /\ e_calls[1].file_after = "partial"

\* ------------------------------------------- claims on the windows of a fetch
\* C22 as stated: every window the service hands to the provider has
\* start <= end, whatever the service was called with.
C22_Original ==
    \A i \in 1..Len(provider_calls) : provider_calls[i].start <= provider_calls[i].end

\* C22: the service checks nothing; every window it hands to the provider is
\* as long as the window it was called with, so it has start <= end exactly
\* when the input window has.
C22_WindowOrderPreserved ==
    \A i \in 1..Len(provider_calls) :
        /\ provider_calls[i].end - provider_calls[i].start = end_date - start_date
        /\ provider_calls[i].start <= provider_calls[i].end <=> start_date <= end_date

\* C22 witness: the service was called with start_date > end_date and made a
\* provider call for every offset, each with start > end.
C22_Witness ==
    /\ Returned_
    /\ start_date > end_date
    /\ years_past >= 1
    /\ Len(provider_calls) = years_past + 1
    /\ \A i \in 1..Len(provider_calls) : provider_calls[i].start > provider_calls[i].end

\* C23: the window of offset k is the input window k calendar years earlier:
\* same month and day, year lower by k, for its start and for its end.
C23_CalendarYearShift ==
    \A i \in 1..Len(provider_calls) :
        LET c == provider_calls[i] IN
        /\ MonthOf(c.start) = MonthOf(start_date)
        /\ DayOf(c.start) = DayOf(start_date)
        /\ YearOf(c.start) = YearOf(start_date) - c.offset
        /\ MonthOf(c.end) = MonthOf(end_date)
        /\ DayOf(c.end) = DayOf(end_date)
        /\ YearOf(c.end) = YearOf(end_date) - c.offset

\* --------------------------------- claims on the service over real providers
RECURSIVE AggRecordsFrom(_)
AggRecordsFrom(i) ==
    IF i > Len(provider_calls) THEN <<>>
    ELSE (IF provider_calls[i].raised THEN <<>> ELSE provider_calls[i].records)
         \o AggRecordsFrom(i + 1)

\* C24: an offset adds all of its records or none.  While a provider call is
\* under way the accumulator does not change; a call that raised leaves the
\* accumulator as it was before that offset, whatever the provider had built
\* by then; so the accumulator, and the result, is the records of the calls
\* that returned and nothing else.
AccumulatorIsWholeOffsets ==
    /\ pc \in {"LoopHead", "FetchingYear", "Done"} => all_records = AggRecordsFrom(1)
    /\ pc = "Done" => result = AggRecordsFrom(1)
FailedOffsetLeavesAccumulator ==
    /\ (pc = "FetchingYear" /\ pc' = "FetchingYear") => all_records' = all_records
    /\ (pc = "FetchingYear" /\ p_pc = "Raised" /\ pc' = "LoopHead") =>
          all_records' = all_records
C24_OffsetAllOrNothing ==
    /\ [](AccumulatorIsWholeOffsets)
    /\ [][FailedOffsetLeavesAccumulator]_vars

\* C24 witness: offset 0 returned two records; offset 1 built a record for its
\* first day, failed on its second, and the result is the two records of
\* offset 0.
C24_Witness ==
    /\ pc = "Done"
    /\ Len(provider_calls) = 2
    /\ ~ provider_calls[1].raised
    /\ Len(provider_calls[1].records) = 2
    /\ provider_calls[2].raised
    /\ Len(provider_calls[2].partial) = 1
    /\ result = provider_calls[1].records
\* C26: every record a provider call has built or returned, whichever the
\* provider, has the calendar year of its own record_date as its year; that
\* includes a PirateWeather record that took the date of the answer.
YearMatchesDate(rec) == rec.year = YearOf(rec.record_date)
C26_YearIsYearOfRecordDate ==
    /\ \A k \in 1..Len(p_records) : YearMatchesDate(p_records[k])
    /\ \A k \in 1..Len(p_result) : YearMatchesDate(p_result[k])

\* C26 witness: PirateWeather was asked for a day of 2024, the answer carried
\* a day of 2023, and the returned record has that day and the year 2023.
C26_Witness ==
    /\ p_impl = "PirateWeather"
    /\ p_pc = "Returned"
    /\ \E k \in 1..Len(p_result) :
          /\ YearOf(DataRequests[k].date) = 2024
          /\ p_result[k].record_date = DateOrd(2023, 12, 31)
          /\ p_result[k].year = 2023

\* C29: in an AccuWeather call the location-key lookup is the first request
\* and the only lookup, an empty key fails the call with no request for a
\* day, and a call that failed on the transport of the lookup holds an
\* exception of the same class as a call that failed on the transport of a
\* day's request.
LookupRequests == SelectSeq(p_requests, LAMBDA r : r.kind = "lookup")
C29_LookupFirstOnceSameKind ==
    (p_impl = "AccuWeather" /\ p_pc # "Lookup") =>
        /\ Len(LookupRequests) = 1
        /\ p_requests[1].kind = "lookup"
        /\ p_requests[1].outcome = "nokey" =>
              (p_pc = "Raised" /\ DayRequests = <<>> /\ p_error = NoLocationKeyError)
        /\ (p_pc = "Raised" /\ LastRequest.outcome = "transport") =>
              p_error.type = NetworkError.type
\* C25: the sub-windows of one submitted fetch are pairwise disjoint, so no
\* calendar day is asked for under two offsets.
C25_SubWindowsDisjoint ==
    \A i \in 1..Len(w_fetch), j \in 1..Len(w_fetch) :
        i < j => w_fetch[j].end < w_fetch[i].start
\* ------------------------------------------------ claims on the main window
TerminalSignals == {"fetch_completed", "fetch_error"}
EmittedBy(w) == SelectSeq(u_emitted, LAMBDA e : e.worker = w)
Cleanups == SelectSeq(u_finished, LAMBDA e : e.signal = "finished")
HandledFetches == SelectSeq(u_finished, LAMBDA e : e.signal \in TerminalSignals)

\* C27: at most one worker is running in every state, no step that begins
\* while a worker is running starts a worker, and no _cleanup_worker began
\* while self.worker_thread referenced a running worker.
C27_OneWorkerAtATime ==
    /\ [](/\ Cardinality(u_running) <= 1
          /\ \A k \in 1..Len(Cleanups) : ~Cleanups[k].referenced_running)
    /\ [][u_running # {} => u_started' = u_started]_vars

\* C27 witness: a second worker is running after the first was cleaned up.
C27_Witness ==
    /\ u_started >= 2
    /\ Len(Cleanups) >= 1
    /\ u_running = {u_started}
    /\ u_worker = u_started

\* C28: a worker emits at most one terminal signal, a worker whose run() has
\* ended has emitted exactly one, and whenever the fetch button is disabled
\* it is later enabled again with self.worker_thread None.
C28_OneTerminalSignalThenReset ==
    /\ [](\A w \in 1..u_started :
             /\ Len(EmittedBy(w)) <= 1
             /\ w \notin u_running => Len(EmittedBy(w)) = 1
             /\ \A k \in 1..Len(EmittedBy(w)) : EmittedBy(w)[k].signal \in TerminalSignals)
    /\ (~u_fetch_button) ~> (u_fetch_button /\ u_worker = 0)

\* C28 witness: one fetch ended in fetch_error and one in fetch_completed, and
\* after both the button is enabled and no worker is referenced.
C28_Witness ==
    /\ \E i, j \in 1..Len(HandledFetches) :
          /\ HandledFetches[i].signal = "fetch_error"
          /\ HandledFetches[j].signal = "fetch_completed"
    /\ Len(Cleanups) = u_started
    /\ u_fetch_button
    /\ u_worker = 0

\* C30: an export button is enabled only if the fetch whose terminal signal
\* was handled last loaded a non-empty record set.
C30_ExportOnlyAfterData ==
    u_export # {} =>
        /\ HandledFetches # <<>>
        /\ HandledFetches[Len(HandledFetches)].signal = "fetch_completed"
        /\ HandledFetches[Len(HandledFetches)].records = "some"

====
